---- MODULE Spec2Model ----
(***************************************************************************)
(* A model of the rezolus sampler framework as far as two of its source    *)
(* files show it: the Tcp sampler (src/samplers/tcp/mod.rs) with its       *)
(* construction, its spawned sampling loop and its three sampling steps,   *)
(* and the active-statistics filter of a source configuration             *)
(* (src/samplers/cpu/config.rs).                                           *)
(*                                                                         *)
(* Spec       the Tcp sampler: spawn, then the loop of sampling passes,    *)
(*            interleaved with runtime changes of the enabled flag.        *)
(* SpecConfig the CpuConfig::statistics filter applied to every bounded    *)
(*            configured selection.                                        *)
(***************************************************************************)
EXTENDS Integers, Sequences, FiniteSets, TLC

VARIABLES
    \* ---- configuration (Common.config) ----
    enabled,          \* samplers().tcp().enabled(), an atomic changed at runtime
    fault_tolerant,   \* general().fault_tolerant()
    bpf_config,       \* samplers().tcp().bpf()
    feature_bpf,      \* the build has feature "bpf"
    configured,       \* the configured selection of the tcp source
    \* ---- struct Tcp ----
    bpf,              \* Option<Arc<Mutex<BPF>>>: "None" or "Some"
    bpf_last,         \* Arc<Mutex<Instant>>
    proc_net_snmp,    \* Option<File>: "None" or "Some"
    proc_net_netstat, \* Option<File>: "None" or "Some"
    statistics,       \* Vec<TcpStatistic>
    \* ---- the kernel and the runtime ----
    attached,         \* kernel functions that have a kprobe attached
    task,             \* what spawn did: "unspawned", "none", "running", "fatal", "logged"
    new_result,       \* the result of Tcp::new: "NotCalled", "Ok", "Err"
    init_result,      \* the result of initialize_bpf: "NotCalled", "Ok", "Err"
    init_fail,        \* the step of initialize_bpf that failed, "none" if none did
    pc,               \* the position of the sampler task within sample()
    result,           \* the result of the last pass that returned
    now,              \* the clock behind Instant::now()
    \* ---- the metrics registry ----
    counters,         \* per statistic: the last counter observation
    buckets,          \* the bucket observations recorded so far
    \* ---- history ----
    ticked,           \* the current pass has awaited the tick of its delay
    attempted,        \* steps the current pass has attempted
    failed,           \* steps of the current pass that failed
    last_read,        \* the last file step of the pass: whether its input parsed,
                      \* the statistics whose lookup key was absent from it, the
                      \* values it held for the others, whether File::open was called
    last_req,         \* the last sample_bpf call: its time, whether it read tables,
                      \* the table entries it read, the writes it made and the
                      \* lock operations it made
    last_drain,       \* the time of the last read of the probe tables, -1 before it
    skipped,          \* a pass has found the source disabled since the last snmp step
    retry,            \* the files whose last File::open failed
    log,              \* the error messages logged so far
    \* ---- CpuConfig ----
    cpu_statistics,   \* CpuConfig.statistics
    cpu_perf_events,  \* CpuConfig.perf_events
    cpu_active,       \* the last value CpuConfig::statistics() returned
    cpu_called,       \* statistics() was called on the current configuration
    cpu_enabled,      \* CpuConfig.enabled
    cpu_interval,     \* CpuConfig.interval: "None" or "Some"
    cpu_default       \* the configuration is the one Default::default() builds

vars == <<enabled, fault_tolerant, bpf_config, feature_bpf, configured,
          bpf, bpf_last, proc_net_snmp, proc_net_netstat, statistics,
          attached, task, new_result, init_result, init_fail, pc, result, now,
          counters, buckets,
          ticked, attempted, failed, last_read, last_req, last_drain,
          skipped, retry, log,
          cpu_statistics, cpu_perf_events, cpu_active, cpu_called,
          cpu_enabled, cpu_interval, cpu_default>>

config_vars == <<fault_tolerant, bpf_config, feature_bpf, configured>>
tcp_vars == <<bpf, bpf_last, proc_net_snmp, proc_net_netstat, statistics>>
cpu_vars == <<cpu_statistics, cpu_perf_events, cpu_active, cpu_called,
              cpu_enabled, cpu_interval, cpu_default>>
history_vars == <<ticked, attempted, failed, last_read, last_req, last_drain,
                  skipped, retry, log>>

----------------------------------------------------------------------------
\* Bounds of the model.

MaxTime == 2          \* the clock stops the model at this instant
MaxSelection == 3     \* length of a configured CpuConfig selection

\* general().window(), in units of the clock.
Window == 1
\* sample_bpf scales a bucket value by this factor.
Scale == 1000

\* The statistic catalog: A has a lookup key only, B a probe table only,
\* C has both.
Catalog == {"A", "B", "C"}
CatalogOrder == <<"A", "B", "C">>

keys(s) ==
    CASE s = "A" -> <<"Tcp", "ActiveOpens">>
      [] s = "C" -> <<"TcpExt", "TCPSynRetrans">>
      [] OTHER -> <<>>

bpf_table(s) ==
    CASE s = "B" -> "connlat"
      [] s = "C" -> "srtt"
      [] OTHER -> "None"

\* A statistic read from a probe table is a distribution, any other a counter.
Kind(s) == IF bpf_table(s) # "None" THEN "distribution" ELSE "counter"

None == [value |-> -1, time |-> -1]

RECURSIVE SeqToSet(_)
SeqToSet(q) == IF q = <<>> THEN {} ELSE {Head(q)} \cup SeqToSet(Tail(q))

----------------------------------------------------------------------------
\* Source configuration: the active-statistics filter.

table(s) == bpf_table(s)

\* One iteration of the loop of statistics(): whether the statistic is pushed.
PushesUnfiltered(s, probe) == TRUE

PushesKeepsLookupKey(s, probe) ==
    IF table(s) # "None"
    THEN (IF probe \/ keys(s) # <<>> THEN TRUE ELSE FALSE)
    ELSE TRUE

Pushes(s, probe) ==
    IF table(s) # "None"
    THEN (IF probe THEN TRUE ELSE FALSE)
    ELSE TRUE

RECURSIVE StatisticsLoop(_, _, _)
StatisticsLoop(rest, probe, acc) ==
    IF rest = <<>>
    THEN acc
    ELSE StatisticsLoop(Tail(rest), probe,
                        IF Pushes(Head(rest), probe)
                        THEN Append(acc, Head(rest))
                        ELSE acc)

Statistics(selection, probe) == StatisticsLoop(selection, probe, <<>>)

\* The tcp source's configuration applies the same filter with its bpf flag.
TcpStatistics(selection, probe) == Statistics(selection, probe)

default_statistics == CatalogOrder

\* impl Default for CpuConfig (percentiles left out).
CpuConfigDefaultProbesOn ==
    [enabled |-> FALSE, interval |-> "None", perf_events |-> TRUE,
     statistics |-> default_statistics]

CpuConfigDefault ==
    [enabled |-> FALSE, interval |-> "None", perf_events |-> FALSE,
     statistics |-> default_statistics]

----------------------------------------------------------------------------
\* Construction of the Tcp sampler.

Probes == <<"tcp_v4_connect", "tcp_v6_connect", "tcp_rcv_state_process">>
FailPoints == {"none", "new"} \cup SeqToSet(Probes)

bpf_enabled(probe, selection) ==
    probe /\ \E i \in 1..Len(TcpStatistics(selection, probe)) :
                bpf_table(TcpStatistics(selection, probe)[i]) # "None"

\* An attach that fails: `?` returns the error, self.bpf is not assigned and the
\* local program is dropped, which detaches what it had attached.
AttachFailureKeepsPartial(att) == [result |-> "Err", bpf |-> "Some", attached |-> att]

AttachFailure(att) == [result |-> "Err", bpf |-> "None", attached |-> {}]

RECURSIVE AttachAll(_, _, _)
AttachAll(i, fail_at, att) ==
    IF i > Len(Probes)
    THEN [result |-> "Ok", bpf |-> "Some", attached |-> att]
    ELSE IF Probes[i] = fail_at
         THEN AttachFailure(att)
         ELSE AttachAll(i + 1, fail_at, att \cup {Probes[i]})

initialize_bpf(feature, en, probe, selection, fail_at) ==
    IF feature /\ en /\ bpf_enabled(probe, selection)
    THEN IF fail_at = "new"
         THEN [result |-> "Err", bpf |-> "None", attached |-> {}, fail |-> fail_at]
         ELSE [fail |-> fail_at] @@ AttachAll(1, fail_at, {})
    ELSE [result |-> "Ok", bpf |-> "None", attached |-> {}, fail |-> "none"]

\* The result of Tcp::new, given what initialize_bpf returned.
NewResultAlwaysPropagates(init, ft) == IF init = "Err" THEN "Err" ELSE "Ok"

NewResult(init, ft) == IF init = "Err" /\ ~ft THEN "Err" ELSE "Ok"

\* What spawn does with the result of Tcp::new.
SpawnOutcome(r, ft) ==
    IF r = "Ok" THEN "running"
    ELSE IF ~ft THEN "fatal"
    ELSE "logged"

\* What spawn logs at error level.
SpawnLog(outcome) ==
    IF outcome \in {"fatal", "logged"} THEN {"failed to initialize tcp sampler"} ELSE {}

\* spawn constructs the sampler and starts its task only for an enabled source.
SpawnGateAlways(en) == TRUE

SpawnGate(en) == en

Spawn ==
    /\ task = "unspawned"
    /\ \E fail_at \in FailPoints :
         IF SpawnGate(enabled)
         THEN LET init == initialize_bpf(feature_bpf, enabled, bpf_config, configured, fail_at)
                  r == NewResult(init.result, fault_tolerant)
              IN /\ statistics' = TcpStatistics(configured, bpf_config)
                 /\ bpf_last' = now
                 /\ bpf' = IF r = "Ok" THEN init.bpf ELSE "None"
                 /\ attached' = IF r = "Ok" THEN init.attached ELSE {}
                 /\ init_result' = init.result
                 /\ init_fail' = init.fail
                 /\ new_result' = r
                 /\ task' = SpawnOutcome(r, fault_tolerant)
                 /\ pc' = IF SpawnOutcome(r, fault_tolerant) = "running" THEN "tick" ELSE "none"
                 /\ log' = log \cup SpawnLog(SpawnOutcome(r, fault_tolerant))
         ELSE /\ task' = "none"
              /\ UNCHANGED <<statistics, bpf_last, bpf, attached, init_result, init_fail,
                   new_result, pc, log>>
    /\ UNCHANGED <<enabled, config_vars, proc_net_snmp, proc_net_netstat, result, now,
                   counters, buckets, ticked, attempted, failed, last_read, last_req,
                   last_drain, skipped, retry, cpu_vars>>

\* A configuration reload changes the enabled flag at any time.
SetEnabled ==
    /\ task # "unspawned"
    /\ enabled' = ~enabled
    /\ UNCHANGED <<config_vars, tcp_vars, attached, task, new_result, init_result,
                   init_fail, pc, result, now, counters, buckets, ticked, attempted,
                   failed, last_read, last_req, last_drain, skipped, retry, log,
                   cpu_vars>>

----------------------------------------------------------------------------
\* The inputs of a pass.

OuterKeys == {"Tcp", "TcpExt"}
InnerKeys(outer) == IF outer = "Tcp" THEN {"ActiveOpens"} ELSE {"TCPSynRetrans"}
Values == {3, 5}
InnerMaps(outer) == UNION {[T -> Values] : T \in SUBSET InnerKeys(outer)}
\* What nested_map_from_file can return for a file that parses: a map from
\* some outer keys to maps from some inner keys to values.
ParsedMaps ==
    UNION {{m \in [S -> UNION {InnerMaps(o) : o \in S}] :
              \A o \in S : m[o] \in InnerMaps(o)} : S \in SUBSET OuterKeys}
\* What opening and reading a file can come to.
FileReads ==
    {[open_ok |-> FALSE, parse_ok |-> FALSE, parsed |-> <<>>],
     [open_ok |-> TRUE, parse_ok |-> FALSE, parsed |-> <<>>]}
      \cup {[open_ok |-> TRUE, parse_ok |-> TRUE, parsed |-> m] : m \in ParsedMaps}

TableNames == {"connlat", "srtt"}
BucketValues == {1, 2}
\* What inner.table(name) and map_from_table can return: an error, or the
\* occurrence count of every bucket of the table: here a table with no
\* occurrence, and one with occurrences in its first bucket only.
TableMaps ==
    {[b \in BucketValues |-> 0],
     [b \in BucketValues |-> IF b = 1 THEN 2 ELSE 0]}
TableReads ==
    {[ok |-> TRUE, map |-> m] : m \in TableMaps}
      \cup {[ok |-> FALSE, map |-> [b \in BucketValues |-> 0]]}

----------------------------------------------------------------------------
\* The metrics registry.

record_counter(reg, s, t, v) ==
    IF Kind(s) = "counter"
    THEN [reg EXCEPT ![s] = [value |-> v, time |-> t]]
    ELSE reg

\* The result a write returns: a write of the wrong kind fails.
record_counter_result(s) == IF Kind(s) = "counter" THEN "Ok" ELSE "TypeMismatch"

record_bucket_result(s) == IF Kind(s) = "distribution" THEN "Ok" ELSE "TypeMismatch"

record_bucket(obs, s, t, v, c) ==
    IF Kind(s) = "distribution"
    THEN obs \cup {[stat |-> s, time |-> t, value |-> v, count |-> c]}
    ELSE obs

----------------------------------------------------------------------------
\* The steps of a sampling pass.

\* Sampler::map_result: the failure of a step, wrapped, is what it returns.
map_result(r) == IF r = "Ok" THEN "Ok" ELSE "Err"

\* Whether both keys of the statistic are in the parsed input.
Present(parsed, s) ==
    /\ keys(s) # <<>>
    /\ keys(s)[1] \in DOMAIN parsed
    /\ keys(s)[2] \in DOMAIN parsed[keys(s)[1]]

\* One iteration of the loop over self.statistics: a statistic whose keys
\* are in the parsed input is recorded, any other is passed over.
RecordOneResetsAbsent(parsed, reg, s, t) ==
    IF Present(parsed, s)
    THEN record_counter(reg, s, t, parsed[keys(s)[1]][keys(s)[2]])
    ELSE [reg EXCEPT ![s] = None]

RecordOneSkipsUnchanged(parsed, reg, s, t) ==
    IF Present(parsed, s) /\ parsed[keys(s)[1]][keys(s)[2]] # reg[s].value
    THEN record_counter(reg, s, t, parsed[keys(s)[1]][keys(s)[2]])
    ELSE reg

RecordOneAccumulates(parsed, reg, s, t) ==
    IF Present(parsed, s)
    THEN record_counter(reg, s, t,
                        IF reg[s] = None
                        THEN parsed[keys(s)[1]][keys(s)[2]]
                        ELSE reg[s].value + parsed[keys(s)[1]][keys(s)[2]])
    ELSE reg

RecordOne(parsed, reg, s, t) ==
    IF Present(parsed, s)
    THEN record_counter(reg, s, t, parsed[keys(s)[1]][keys(s)[2]])
    ELSE reg

\* The loop over self.statistics of sample_snmp and of sample_netstat.
RECURSIVE RecordParsed(_, _, _, _)
RecordParsed(rest, parsed, reg, t) ==
    IF rest = <<>>
    THEN reg
    ELSE RecordParsed(Tail(rest), parsed, RecordOne(parsed, reg, Head(rest), t), t)

\* The statistics with a lookup key that the parsed input does not hold.
Absent(stats, parsed) ==
    {s \in SeqToSet(stats) : keys(s) # <<>> /\ ~Present(parsed, s)}

\* `let _ = self.metrics().record_counter(..)`: what the sampler logs for the
\* result of a write.
LetUnderscore(r) == {}

\* What a file step logs for the writes it makes.
RecordLog(stats, parsed) ==
    UNION {LetUnderscore(record_counter_result(s)) :
             s \in {x \in SeqToSet(stats) : Present(parsed, x)}}

\* The files whose last open failed, after a step on file f.
Retry(pending, f, r) ==
    IF r.opened = 1
    THEN (IF r.file = "None" THEN pending \cup {f} ELSE pending \ {f})
    ELSE pending

\* The values the parsed input holds for the statistics whose keys are in it.
Found(stats, parsed) ==
    {[stat |-> s, value |-> parsed[keys(s)[1]][keys(s)[2]]] :
        s \in {x \in SeqToSet(stats) : Present(parsed, x)}}

\* Lazy open, read, parse and record, as sample_snmp and sample_netstat do it.
read_and_record(file, open_ok, parse_ok, parsed, stats, reg, t) ==
    IF file = "None" /\ ~open_ok
    THEN [result |-> "Err", file |-> "None", counters |-> reg, opened |-> 1]
    ELSE IF ~parse_ok
    THEN [result |-> "Err", file |-> "Some", counters |-> reg,
          opened |-> IF file = "None" THEN 1 ELSE 0]
    ELSE [result |-> "Ok", file |-> "Some",
          counters |-> RecordParsed(stats, parsed, reg, t),
          opened |-> IF file = "None" THEN 1 ELSE 0]

\* A step that does not use the cached handle.
sample_snmp_reopens(file, open_ok, parse_ok, parsed, stats, reg, t) ==
    read_and_record("None", open_ok, parse_ok, parsed, stats, reg, t)

sample_snmp(file, open_ok, parse_ok, parsed, stats, reg, t) ==
    read_and_record(file, open_ok, parse_ok, parsed, stats, reg, t)

sample_netstat(file, open_ok, parse_ok, parsed, stats, reg, t) ==
    read_and_record(file, open_ok, parse_ok, parsed, stats, reg, t)

\* The buckets of one table, recorded for one statistic.
RecordTableUnscaled(obs, s, t, map) ==
    obs \cup UNION {record_bucket({}, s, t, b, map[b]) :
                      b \in {x \in BucketValues : map[x] > 0}}

RecordTable(obs, s, t, map) ==
    obs \cup UNION {record_bucket({}, s, t, b * Scale, map[b]) :
                      b \in {x \in BucketValues : map[x] > 0}}

RECURSIVE DrainTables(_, _, _, _)
DrainTables(rest, tables, obs, t) ==
    IF rest = <<>>
    THEN obs
    ELSE DrainTables(Tail(rest), tables,
                     IF bpf_table(Head(rest)) # "None" /\ tables[bpf_table(Head(rest))].ok
                     THEN RecordTable(obs, Head(rest), t,
                                      tables[bpf_table(Head(rest))].map)
                     ELSE obs,
                     t)

\* The entries of the tables read for the statistics that have a probe
\* table, those with no occurrence included.
Entries(stats, tables) ==
    {[stat |-> s, value |-> b, count |-> tables[bpf_table(s)].map[b]] :
        s \in {x \in SeqToSet(stats) : bpf_table(x) # "None" /\ tables[bpf_table(x)].ok},
        b \in BucketValues}

\* The number of record_bucket calls of one drain: one for each pass of the
\* inner loop that finds an occurrence.
RECURSIVE DrainCalls(_, _)
DrainCalls(rest, tables) ==
    IF rest = <<>>
    THEN 0
    ELSE DrainCalls(Tail(rest), tables)
           + (IF bpf_table(Head(rest)) # "None" /\ tables[bpf_table(Head(rest))].ok
              THEN Cardinality({b \in BucketValues :
                                  tables[bpf_table(Head(rest))].map[b] > 0})
              ELSE 0)

\* What sample_bpf logs for the writes it makes.
BucketLog(stats) ==
    UNION {LetUnderscore(record_bucket_result(s)) :
             s \in {x \in SeqToSet(stats) : bpf_table(x) # "None"}}

\* The operations of sample_bpf on its two mutexes, in program order. The
\* guard of the elapsed check is a temporary of the condition of the `if`:
\* it is dropped when the condition has been evaluated.
ElapsedCheckHoldsGuard == <<[op |-> "lock", mutex |-> "bpf_last"]>>

ElapsedCheckLocks ==
    <<[op |-> "lock", mutex |-> "bpf_last"], [op |-> "unlock", mutex |-> "bpf_last"]>>

\* The guard of the probe handle lives to the end of the `if let` block.
DrainLocks(handle) ==
    IF handle = "Some"
    THEN <<[op |-> "lock", mutex |-> "bpf"], [op |-> "unlock", mutex |-> "bpf"]>>
    ELSE <<>>

\* The guard of the reset is a temporary of the assignment statement.
ResetLocks ==
    <<[op |-> "lock", mutex |-> "bpf_last"], [op |-> "unlock", mutex |-> "bpf_last"]>>

sample_bpf_locks(handle, last, t) ==
    ElapsedCheckLocks \o
        (IF t - last >= Window THEN DrainLocks(handle) \o ResetLocks ELSE <<>>)

\* Whether the window has elapsed since the last drain.
ElapsedAlways(last, t) == TRUE

Elapsed(last, t) == t - last >= Window

sample_bpf_ignores_handle(handle, last, t, stats, tables, obs) ==
    IF Elapsed(last, t)
    THEN [read |-> TRUE, buckets |-> DrainTables(stats, tables, obs, t), bpf_last |-> t]
    ELSE [read |-> FALSE, buckets |-> obs, bpf_last |-> last]

\* sample_bpf runs without a suspension point: it is modelled at one instant.
sample_bpf(handle, last, t, stats, tables, obs) ==
    IF Elapsed(last, t)
    THEN IF handle = "Some"
         THEN [read |-> TRUE, buckets |-> DrainTables(stats, tables, obs, t),
               bpf_last |-> t]
         ELSE [read |-> FALSE, buckets |-> obs, bpf_last |-> t]
    ELSE [read |-> FALSE, buckets |-> obs, bpf_last |-> last]

----------------------------------------------------------------------------
\* The sampler task: loop { let _ = sampler.sample().await; }

\* self.delay(): the interval of the source, or the default one.
DelayIsSome == TRUE

\* The first tick of an interval completes at once and a late one does not
\* wait: the clock advances by any amount, 0 included.
Tick ==
    /\ task = "running" /\ pc = "tick"
    /\ IF DelayIsSome
       THEN \E d \in 0..(MaxTime - now) :
               /\ now' = now + d
               /\ ticked' = TRUE
       ELSE UNCHANGED <<now, ticked>>
    /\ pc' = "check"
    /\ UNCHANGED <<enabled, config_vars, tcp_vars, attached, task, new_result,
                   init_result, init_fail, result, counters, buckets, attempted,
                   failed, last_read, last_req, last_drain, skipped, retry, log,
                   cpu_vars>>

\* Where sample() goes after reading the enabled flag.
EnabledGateIgnoresFlag(en) == "snmp"

EnabledGate(en) == IF ~en THEN "ret" ELSE "snmp"

CheckEnabled ==
    /\ task = "running" /\ pc = "check"
    /\ pc' = EnabledGate(enabled)
    /\ result' = IF EnabledGate(enabled) = "ret" THEN "Ok" ELSE result
    /\ skipped' = (skipped \/ EnabledGate(enabled) = "ret")
    /\ UNCHANGED <<enabled, config_vars, tcp_vars, attached, task, new_result,
                   init_result, init_fail, now, counters, buckets, ticked, attempted,
                   failed, last_read, last_req, last_drain, retry, log, cpu_vars>>

\* Where sample() goes after a step: `?` returns the mapped error.
AfterStepRestarts(mapped, next) == IF mapped = "Err" THEN "tick" ELSE next

AfterStep(mapped, next) == IF mapped = "Err" THEN "ret" ELSE next

SampleSnmp ==
    /\ task = "running" /\ pc = "snmp"
    /\ \E io \in FileReads :
         LET r == sample_snmp(proc_net_snmp, io.open_ok, io.parse_ok, io.parsed,
                              statistics, counters, now)
             to == AfterStep(map_result(r.result), "netstat")
         IN /\ proc_net_snmp' = r.file
            /\ counters' = r.counters
            /\ attempted' = attempted \cup {"snmp"}
            /\ last_read' = [parsed |-> r.result = "Ok",
                              absent |-> IF r.result = "Ok"
                                         THEN Absent(statistics, io.parsed) ELSE {},
                              values |-> IF r.result = "Ok"
                                         THEN Found(statistics, io.parsed) ELSE {},
                              opened |-> r.opened = 1,
                              resumed |-> skipped]
            /\ retry' = Retry(retry, "snmp", r)
            /\ log' = log \cup (IF r.result = "Ok"
                                THEN RecordLog(statistics, io.parsed) ELSE {})
            /\ failed' = IF r.result = "Err" THEN failed \cup {"snmp"} ELSE failed
            /\ pc' = to
            /\ result' = IF to = "ret" THEN map_result(r.result) ELSE result
    /\ skipped' = FALSE
    /\ UNCHANGED <<enabled, config_vars, bpf, bpf_last, proc_net_netstat, statistics,
                   attached, task, new_result, init_result, init_fail, now, buckets,
                   ticked, last_req, last_drain, cpu_vars>>

SampleNetstat ==
    /\ task = "running" /\ pc = "netstat"
    /\ \E io \in FileReads :
         LET r == sample_netstat(proc_net_netstat, io.open_ok, io.parse_ok, io.parsed,
                                 statistics, counters, now)
             to == AfterStep(map_result(r.result), IF feature_bpf THEN "bpf" ELSE "ret")
         IN /\ proc_net_netstat' = r.file
            /\ counters' = r.counters
            /\ attempted' = attempted \cup {"netstat"}
            /\ last_read' = [parsed |-> r.result = "Ok",
                              absent |-> IF r.result = "Ok"
                                         THEN Absent(statistics, io.parsed) ELSE {},
                              values |-> IF r.result = "Ok"
                                         THEN Found(statistics, io.parsed) ELSE {},
                              opened |-> r.opened = 1,
                              resumed |-> FALSE]
            /\ retry' = Retry(retry, "netstat", r)
            /\ log' = log \cup (IF r.result = "Ok"
                                THEN RecordLog(statistics, io.parsed) ELSE {})
            /\ failed' = IF r.result = "Err" THEN failed \cup {"netstat"} ELSE failed
            /\ pc' = to
            /\ result' = IF to = "ret" THEN map_result(r.result) ELSE result
    /\ UNCHANGED <<enabled, config_vars, bpf, bpf_last, proc_net_snmp, statistics,
                   attached, task, new_result, init_result, init_fail, now, buckets,
                   ticked, last_req, last_drain, skipped, cpu_vars>>

\* sample_bpf always returns Ok(()), so the pass does.
SampleBpf ==
    /\ task = "running" /\ pc = "bpf"
    /\ \E tables \in [TableNames -> TableReads] :
         LET r == sample_bpf(bpf, bpf_last, now, statistics, tables, buckets)
         IN /\ buckets' = r.buckets
            /\ bpf_last' = r.bpf_last
            /\ last_req' = [time |-> now, read |-> r.read,
                             entries |-> IF r.read THEN Entries(statistics, tables)
                                         ELSE {},
                             calls |-> IF r.read THEN DrainCalls(statistics, tables)
                                       ELSE 0,
                             locks |-> sample_bpf_locks(bpf, bpf_last, now)]
            /\ log' = log \cup (IF r.read THEN BucketLog(statistics) ELSE {})
            /\ last_drain' = IF r.read THEN now ELSE last_drain
    /\ attempted' = attempted \cup {"bpf"}
    /\ pc' = "ret"
    /\ result' = map_result("Ok")
    /\ UNCHANGED <<enabled, config_vars, bpf, proc_net_snmp, proc_net_netstat,
                   statistics, attached, task, new_result, init_result, init_fail, now,
                   counters, ticked, failed, last_read, skipped, retry, cpu_vars>>

\* The loop of the task drops the result of the pass and goes round again.
TaskAfterPassStopsOnError(r) == IF r = "Err" THEN "ended" ELSE "running"

TaskAfterPass(r) == "running"

LoopNext ==
    /\ task = "running" /\ pc = "ret"
    /\ task' = TaskAfterPass(result)
    /\ pc' = IF TaskAfterPass(result) = "running" THEN "tick" ELSE "none"
    /\ ticked' = FALSE
    /\ attempted' = {}
    /\ failed' = {}
    /\ last_read' = [parsed |-> FALSE, absent |-> {}, values |-> {}, opened |-> FALSE,
                   resumed |-> FALSE]
    /\ UNCHANGED <<enabled, config_vars, tcp_vars, attached, new_result, init_result,
                   init_fail, result, now, counters, buckets, last_req,
                   last_drain, skipped, retry, log,
                   cpu_vars>>

----------------------------------------------------------------------------
\* The Tcp sampler.

TcpSelections == {<<"A", "B", "C">>, <<"A", "A">>, <<"B", "B">>}

\* The sampler before spawn, and the registry before any pass.
InitSampler ==
    /\ bpf = "None"
    /\ bpf_last = 0
    /\ proc_net_snmp = "None"
    /\ proc_net_netstat = "None"
    /\ statistics = <<>>
    /\ attached = {}
    /\ task = "unspawned"
    /\ new_result = "NotCalled"
    /\ init_result = "NotCalled"
    /\ init_fail = "none"
    /\ pc = "none"
    /\ result = "Ok"
    /\ now = 0
    /\ counters = [s \in Catalog |-> None]
    /\ buckets = {}
    /\ ticked = FALSE
    /\ attempted = {}
    /\ failed = {}
    /\ last_read = [parsed |-> FALSE, absent |-> {}, values |-> {}, opened |-> FALSE,
                   resumed |-> FALSE]
    /\ last_req = [time |-> -1, read |-> FALSE, entries |-> {}, calls |-> 0,
                   locks |-> <<>>]
    /\ last_drain = -1
    /\ skipped = FALSE
    /\ retry = {}
    /\ log = {}

Init ==
    /\ enabled \in BOOLEAN
    /\ fault_tolerant \in BOOLEAN
    /\ bpf_config \in BOOLEAN
    /\ feature_bpf \in BOOLEAN
    /\ configured \in TcpSelections
    /\ InitSampler
    /\ cpu_statistics = CpuConfigDefault.statistics
    /\ cpu_perf_events = CpuConfigDefault.perf_events
    /\ cpu_enabled = CpuConfigDefault.enabled
    /\ cpu_interval = CpuConfigDefault.interval
    /\ cpu_default = TRUE
    /\ cpu_active = <<>>
    /\ cpu_called = FALSE

Next ==
    \/ Spawn
    \/ SetEnabled
    \/ Tick
    \/ CheckEnabled
    \/ SampleSnmp
    \/ SampleNetstat
    \/ SampleBpf
    \/ LoopNext

Spec == Init /\ [][Next]_vars


----------------------------------------------------------------------------
\* The source configuration of the cpu sampler.

\* The configured selections: every list of at most MaxSelection statistics.
Selections == UNION {[1..n -> Catalog] : n \in 0..MaxSelection}
\* Option<AtomicUsize>: whether an interval is configured.
Intervals == {"None", "Some"}

InitConfig ==
    /\ enabled = FALSE
    /\ fault_tolerant = FALSE
    /\ bpf_config = FALSE
    /\ feature_bpf = FALSE
    /\ configured = default_statistics
    /\ InitSampler
    /\ cpu_statistics \in Selections
    /\ cpu_perf_events \in BOOLEAN
    /\ cpu_enabled \in BOOLEAN
    /\ cpu_interval \in Intervals
    /\ cpu_default = FALSE
    /\ cpu_active = <<>>
    /\ cpu_called = FALSE

\* A call of CpuConfig::statistics().
CpuStatistics ==
    /\ cpu_active' = Statistics(cpu_statistics, cpu_perf_events)
    /\ cpu_called' = TRUE
    /\ UNCHANGED <<enabled, config_vars, tcp_vars, attached, task, new_result,
                   init_result, init_fail, pc, result, now, counters, buckets,
                   history_vars, cpu_statistics, cpu_perf_events, cpu_enabled,
                   cpu_interval, cpu_default>>

\* perf_events is an atomic that a reload stores to.
CpuSetPerfEvents ==
    /\ cpu_perf_events' = ~cpu_perf_events
    /\ cpu_called' = FALSE
    /\ cpu_default' = FALSE
    /\ UNCHANGED <<enabled, config_vars, tcp_vars, attached, task, new_result,
                   init_result, init_fail, pc, result, now, counters, buckets,
                   history_vars, cpu_statistics, cpu_active, cpu_enabled, cpu_interval>>

\* The configuration is replaced by the one built from defaults.
CpuDefault ==
    /\ ~cpu_default
    /\ cpu_enabled' = CpuConfigDefault.enabled
    /\ cpu_interval' = CpuConfigDefault.interval
    /\ cpu_perf_events' = CpuConfigDefault.perf_events
    /\ cpu_statistics' = CpuConfigDefault.statistics
    /\ cpu_default' = TRUE
    /\ cpu_called' = FALSE
    /\ UNCHANGED <<enabled, config_vars, tcp_vars, attached, task, new_result,
                   init_result, init_fail, pc, result, now, counters, buckets,
                   history_vars, cpu_active>>

NextConfig ==
    \/ CpuStatistics
    \/ CpuSetPerfEvents
    \/ CpuDefault

SpecConfig == InitConfig /\ [][NextConfig]_vars

----------------------------------------------------------------------------
\* Properties of the sampling pass and of the sampler task (Spec).

SampleSteps == {"check", "snmp", "netstat", "bpf", "ret"}
FileSteps == {"snmp", "netstat"}

\* C1: within one pass, a failure of the /proc/net/snmp step does not abort
\* the rest of the pass: when the pass returns after that step failed, the
\* netstat step and (in a build with probes) the drain were attempted, and
\* the pass returns the failure.
C1_FailureDoesNotAbortPass ==
    (pc = "ret" /\ "snmp" \in failed) =>
        /\ "netstat" \in attempted
        /\ (feature_bpf => "bpf" \in attempted)
        /\ result = "Err"

\* C2: no result of a pass ends the loop of the task: a running task stays
\* running at every step, and the only way on from a returned pass, failed
\* or not, is to the wait for the next tick.
C2_FailedPassNotFatal ==
    [][task = "running" =>
         /\ task' = "running"
         /\ (pc = "ret" /\ pc' # pc) => pc' = "tick"]_vars

\* A pass runs after a pass that returned an error.
C2_Witness == task = "running" /\ result = "Err" /\ pc = "snmp"

\* C3: the enabled flag is read only after the tick of the pass was awaited,
\* and a pass that finds it false returns Ok at once: it opens and reads no
\* input, records nothing, leaves the drain timestamp alone, and the task
\* goes on to wait for the next tick.
C3_DisabledPassIsNoOp ==
    /\ [](pc \in SampleSteps => ticked)
    /\ [][(pc = "check" /\ ~enabled /\ pc' # pc) =>
            /\ pc' = "ret"
            /\ result' = "Ok"
            /\ UNCHANGED <<proc_net_snmp, proc_net_netstat, counters, buckets,
                           bpf_last, attempted, last_req>>]_vars
    /\ [][(pc = "ret" /\ attempted = {} /\ pc' # pc) =>
            /\ pc' = "tick"
            /\ UNCHANGED <<proc_net_snmp, proc_net_netstat, counters, buckets,
                           bpf_last, last_req>>]_vars

\* A disabled pass has returned, after an earlier pass opened a file and
\* recorded a counter.
C3_Witness ==
    /\ pc = "ret" /\ attempted = {} /\ ticked /\ ~enabled /\ result = "Ok"
    /\ proc_net_snmp = "Some"
    /\ counters["A"] # None

\* C4 as stated: of two successive drain requests of a sampler with a probe
\* handle, the second less than a window after the first, the first reads
\* the tables and the second is a no-op that records no bucket and leaves
\* the drain timestamp unchanged.
C4_ExactlyOneReads ==
    [][(pc = "bpf" /\ pc' = "ret" /\ bpf = "Some"
          /\ last_req.time >= 0 /\ now - last_req.time < Window) =>
            /\ last_req.read
            /\ ~last_req'.read
            /\ buckets' = buckets
            /\ bpf_last' = bpf_last]_vars

\* C4, amended: any two reads of the probe tables are at least a window
\* apart; of two successive drain requests less than a window apart at most
\* one reads the tables, and when the first did, the second records no
\* bucket and leaves the drain timestamp unchanged.
C4_AtMostOneDrainPerWindow ==
    /\ [][(pc = "bpf" /\ pc' = "ret" /\ last_req'.read) =>
            (last_drain = -1 \/ now - last_drain >= Window)]_vars
    /\ [][(pc = "bpf" /\ pc' = "ret"
             /\ last_req.time >= 0 /\ now - last_req.time < Window) =>
            /\ ~(last_req.read /\ last_req'.read)
            /\ last_req.read =>
                 (~last_req'.read /\ buckets' = buckets /\ bpf_last' = bpf_last)]_vars

\* A request has been a no-op less than a window after a read of the tables.
C4_Witness ==
    /\ pc = "ret" /\ bpf = "Some"
    /\ last_drain >= 0
    /\ ~last_req.read
    /\ last_req.time - last_drain < Window

C6_ConstructionFailurePolicy ==
    new_result # "NotCalled" =>
        /\ (new_result = "Err") <=> (init_result = "Err" /\ ~fault_tolerant)
        /\ (init_result = "Err" /\ ~fault_tolerant) => (task = "fatal" /\ pc = "none")
        /\ (init_result = "Err" /\ fault_tolerant) => (new_result = "Ok" /\ task = "running")
        /\ (new_result = "Ok") <=> (task = "running")

\* Probe initialization failed in fault-tolerant mode and the task samples.
C6_Witness ==
    init_result = "Err" /\ fault_tolerant /\ task = "running" /\ pc = "netstat"

\* C7: in fault-tolerant mode, once probe initialization has failed, the
\* task runs, the sampler has no probe handle and no bucket observation is
\* ever recorded, while every file step whose input parses records each
\* counter statistic whose lookup key is in the input.
C7_NoBucketsAfterProbeFailure ==
    /\ []((init_result = "Err" /\ fault_tolerant) =>
             (task = "running" /\ bpf = "None" /\ buckets = {}))
    /\ [][(init_result = "Err" /\ fault_tolerant /\ pc \in FileSteps /\ pc' # pc
             /\ last_read'.parsed) =>
            \A s \in SeqToSet(statistics) :
               (keys(s) # <<>> /\ Kind(s) = "counter" /\ s \notin last_read'.absent) =>
                   (counters'[s].time = now /\ counters'[s].value \in Values)]_vars

\* After the failure a counter was recorded and a drain request was made
\* once the window had elapsed.
C7_Witness ==
    /\ init_result = "Err" /\ fault_tolerant
    /\ counters["A"] # None
    /\ last_req.time >= Window

\* C10: a file step whose input parses does not fail, and leaves the registry
\* entry of every statistic whose lookup key is absent from that input as it
\* was.
C10_AbsentKeySkipped ==
    [][(pc \in FileSteps /\ pc' # pc /\ last_read'.parsed) =>
         /\ failed' = failed
         /\ \A s \in last_read'.absent : counters'[s] = counters[s]]_vars

\* The key of A was absent from the input of the last step, and A keeps the
\* value an earlier pass recorded.
C10_Witness ==
    /\ last_read.parsed /\ "A" \in last_read.absent /\ failed = {}
    /\ counters["A"] # None /\ counters["A"].time < now

----------------------------------------------------------------------------
\* Properties of the active-statistics filter (SpecConfig).

CpuKeeps(s) == table(s) = "None" \/ cpu_perf_events

\* C8: statistics() returns the configured list, in its order, without the
\* statistics that have a probe table when perf_events is false, and whole
\* when it is true.
C8_ActiveStatisticsFilter ==
    cpu_called =>
        /\ cpu_active = SelectSeq(cpu_statistics, CpuKeeps)
        /\ \A s \in Catalog :
             s \in SeqToSet(cpu_active) <=>
                 (s \in SeqToSet(cpu_statistics) /\ (table(s) # "None" => cpu_perf_events))

\* The selection C, A, B was filtered with perf_events false: A alone is left.
C8_Witness ==
    /\ cpu_called /\ ~cpu_perf_events
    /\ cpu_statistics = <<"C", "A", "B">>
    /\ cpu_active = <<"A">>

\* C9 as stated: for the catalog {A, B, C} the active statistics are {A, C}
\* with probe mode off and {A, B, C} with probe mode on.
C9_LookupPathKeepsC ==
    (cpu_called /\ cpu_statistics = CatalogOrder) =>
        SeqToSet(cpu_active) = IF cpu_perf_events THEN {"A", "B", "C"} ELSE {"A", "C"}

\* C9, amended: for the catalog {A, B, C} the active statistics are {A} with
\* probe mode off (C has a probe table and is left out like B) and
\* {A, B, C} with probe mode on.
C9_CatalogScenario ==
    (cpu_called /\ cpu_statistics = CatalogOrder) =>
        SeqToSet(cpu_active) = IF cpu_perf_events THEN {"A", "B", "C"} ELSE {"A"}

\* The catalog was filtered with probe mode off.
C9_Witness ==
    cpu_called /\ cpu_statistics = CatalogOrder /\ ~cpu_perf_events /\ cpu_active = <<"A">>

----------------------------------------------------------------------------
\* Properties of the recording of counters (Spec).

----------------------------------------------------------------------------
\* Properties of the input handles (Spec).

\* C12: no step takes an open input handle away, so a handle stays cached
\* while the source is disabled; a disabled pass touches neither handle; and
\* a file step that finds its handle open, the first one after re-enabling
\* included, reads through it without calling File::open.
C12_HandlesSurviveDisable ==
    /\ [][/\ proc_net_snmp = "Some" => proc_net_snmp' = "Some"
          /\ proc_net_netstat = "Some" => proc_net_netstat' = "Some"]_vars
    /\ [][(pc = "check" /\ ~enabled /\ pc' # pc) =>
            UNCHANGED <<proc_net_snmp, proc_net_netstat>>]_vars
    /\ [][(pc = "snmp" /\ pc' # pc /\ proc_net_snmp = "Some") =>
            (~last_read'.opened /\ proc_net_snmp' = "Some")]_vars
    /\ [][(pc = "netstat" /\ pc' # pc /\ proc_net_netstat = "Some") =>
            (~last_read'.opened /\ proc_net_netstat' = "Some")]_vars

\* The snmp step of the first pass after a disabled pass has read and parsed
\* through the handle an earlier pass opened, without opening the file.
C12_Witness ==
    /\ pc = "netstat"
    /\ last_read.resumed /\ ~last_read.opened /\ last_read.parsed
    /\ proc_net_snmp = "Some"

----------------------------------------------------------------------------
\* Properties of the order of the passes (Spec).

\* The moves of the task between the positions of sample() and of the loop.
PassOrder ==
    {<<"none", "tick">>, <<"tick", "check">>, <<"check", "snmp">>, <<"check", "ret">>,
     <<"snmp", "netstat">>, <<"snmp", "ret">>, <<"netstat", "bpf">>,
     <<"netstat", "ret">>, <<"bpf", "ret">>, <<"ret", "tick">>}

----------------------------------------------------------------------------
\* Properties of the registry writes (Spec).

\* C14: when a file step makes a write of the wrong kind (record_counter for
\* a statistic that is not a counter), the registry entry stays as it was
\* and the sampler logs the TypeMismatch.
C14_MismatchIsReported ==
    [][(pc \in FileSteps /\ pc' # pc /\ last_read'.parsed) =>
         \A f \in last_read'.values :
            record_counter_result(f.stat) = "TypeMismatch" =>
                /\ counters'[f.stat] = counters[f.stat]
                /\ "TypeMismatch" \in log']_vars

\* The registry after one write for each value found, at time t.
RecordedOnce(reg, found, t) ==
    [s \in Catalog |->
        IF Kind(s) = "counter" /\ \E f \in found : f.stat = s
        THEN [value |-> (CHOOSE f \in found : f.stat = s).value, time |-> t]
        ELSE reg[s]]

----------------------------------------------------------------------------
\* Properties of the default configuration (SpecConfig).

HasNoTable(s) == table(s) = "None"

\* C16: the configuration built from defaults has enabled false, no
\* interval, perf_events false and the whole catalog in its enumeration
\* order as statistics; statistics() on it returns the catalog entries that
\* have no probe table, and no other.
C16_DefaultConfiguration ==
    cpu_default =>
        /\ cpu_enabled = FALSE
        /\ cpu_interval = "None"
        /\ cpu_perf_events = FALSE
        /\ cpu_statistics = CatalogOrder
        /\ cpu_called =>
              /\ cpu_active = SelectSeq(CatalogOrder, HasNoTable)
              /\ SeqToSet(cpu_active) = {s \in Catalog : table(s) = "None"}

\* statistics() was called on the configuration built from defaults, which
\* replaced a configured one.
C16_Witness ==
    /\ cpu_default /\ cpu_called
    /\ cpu_active = <<"A">>
    /\ cpu_statistics = CatalogOrder

----------------------------------------------------------------------------
\* Properties of the lazy open (Spec).

\* The handle of the file a step reads.
Handle(f) == IF f = "snmp" THEN proc_net_snmp ELSE proc_net_netstat

\* What a file step does with its handle: File::open is called exactly when
\* the handle is absent; a handle that is open stays open and is not opened
\* again; an open that succeeds caches the handle; an open that fails leaves
\* the handle absent, and the step and the pass return the error.
LazyOpenStep(f, before, after) ==
    /\ (before = "None") <=> last_read'.opened
    /\ before = "Some" => after = "Some"
    /\ (last_read'.opened /\ after = "Some") => f \notin retry'
    /\ (last_read'.opened /\ after = "None") =>
          /\ f \in retry' /\ f \in failed'
          /\ result' = "Err" /\ pc' = "ret"

\* No step but its own changes a handle, and a handle is absent exactly
\* until the first open of its file that succeeds.
LazyOpenSteps ==
    /\ [][(pc = "snmp" /\ pc' # pc) =>
            LazyOpenStep("snmp", proc_net_snmp, proc_net_snmp')]_vars
    /\ [][(pc = "netstat" /\ pc' # pc) =>
            LazyOpenStep("netstat", proc_net_netstat, proc_net_netstat')]_vars
    /\ [][/\ proc_net_snmp' # proc_net_snmp => pc = "snmp"
          /\ proc_net_netstat' # proc_net_netstat => pc = "netstat"]_vars
    /\ [](\A f \in retry : Handle(f) = "None")

\* C17: lazy open as above, and a file whose last open failed is opened
\* again in the next enabled pass: an enabled pass that has returned has
\* attempted the step of every file whose open is still to be retried.
C17_RetriedInNextEnabledPass ==
    /\ LazyOpenSteps
    /\ []((pc = "ret" /\ attempted # {}) => \A f \in retry : f \in attempted)

----------------------------------------------------------------------------
\* Properties of the drain of the probe tables (Spec).

\* The entries of the last drain that hold an occurrence.
Live(entries) == {e \in entries : e.count > 0}

\* What a drain adds to the registry and does to the drain timestamp: for
\* each active statistic that has a probe table and each entry of its table
\* with a count above 0, a bucket observation of the bucket value times 1000
\* and of that count, at the time of the drain; no other observation: none
\* for an entry with count 0, none for a statistic without a probe table;
\* and the drain timestamp becomes the time of the drain.
DrainEffect ==
    /\ buckets' = buckets \cup
          {[stat |-> e.stat, time |-> now, value |-> e.value * 1000,
            count |-> e.count] : e \in Live(last_req'.entries)}
    /\ \A o \in buckets' \ buckets :
          /\ o.count > 0
          /\ bpf_table(o.stat) # "None"
          /\ o.stat \in SeqToSet(statistics)
    /\ bpf_last' = now

\* How often the active list names a statistic.
Occurrences(stats, s) == Cardinality({i \in 1..Len(stats) : stats[i] = s})

\* One write for each entry and each occurrence of its statistic.
RECURSIVE WritesFor(_, _)
WritesFor(stats, live) ==
    IF live = {}
    THEN 0
    ELSE LET e == CHOOSE x \in live : TRUE
         IN Occurrences(stats, e.stat) + WritesFor(stats, live \ {e})

RECURSIVE Held(_, _)
Held(ops, n) ==
    IF n = 0
    THEN {}
    ELSE IF ops[n].op = "lock"
         THEN Held(ops, n - 1) \cup {ops[n].mutex}
         ELSE Held(ops, n - 1) \ {ops[n].mutex}

\* C19: in every sample_bpf call, a mutex is locked only while the call
\* holds no mutex (so the drain-timestamp mutex is released before the
\* probe-handle mutex is taken, and is taken again for the reset only after
\* both were released), a mutex is unlocked only while held, and the call
\* returns holding none: sample_bpf has no suspension point, so none is held
\* across one.
C19_NoNestedLocks ==
    /\ \A n \in 1..Len(last_req.locks) :
          IF last_req.locks[n].op = "lock"
          THEN Held(last_req.locks, n - 1) = {}
          ELSE last_req.locks[n].mutex \in Held(last_req.locks, n - 1)
    /\ Held(last_req.locks, Len(last_req.locks)) = {}

\* A call has checked the window, read the tables under the probe-handle
\* mutex and reset the drain timestamp.
C19_Witness ==
    /\ last_req.read
    /\ last_req.locks = ElapsedCheckLocks \o DrainLocks("Some") \o ResetLocks

----------------------------------------------------------------------------
\* Properties of spawn (Spec).

\* C20: spawn constructs a sampler and starts a task exactly when the source
\* is enabled at that time; when it is not, Tcp::new is not called and no
\* task is started, and from then on, whatever the enabled flag becomes, no
\* task exists and nothing is sampled; a task runs only for a sampler that
\* was constructed, and for a task that exists the flag read after the tick
\* decides whether the pass samples.
C20_NoTaskUnlessEnabledAtSpawn ==
    /\ [][(task = "unspawned" /\ task' # task) =>
            IF enabled
            THEN new_result' # "NotCalled"
            ELSE (task' = "none" /\ new_result' = "NotCalled" /\ pc' = "none")]_vars
    /\ [][task = "none" =>
            /\ task' = "none" /\ pc' = "none"
            /\ UNCHANGED <<new_result, counters, buckets, proc_net_snmp,
                           proc_net_netstat, ticked, attempted, last_req>>]_vars
    /\ [](task = "running" => new_result = "Ok")
    /\ [][(task = "running" /\ pc = "check" /\ pc' # pc) =>
            (pc' = "snmp" <=> enabled)]_vars

\* spawn found the source disabled; the source was enabled afterwards and
\* there is still no sampler and no task.
C20_Witness ==
    /\ task = "none" /\ enabled
    /\ new_result = "NotCalled" /\ pc = "none"
    /\ counters = [s \in Catalog |-> None]

====
